---- MODULE Spec2Model ----
(***************************************************************************)
(* Model of the investment-game backend: one room of the rooms/players     *)
(* tables, the GameService requests that mutate it, the router's           *)
(* continuation that publishes events, and the in-memory RoomEventBroker.  *)
(*                                                                         *)
(* Every GameService method runs in a worker thread (run_in_threadpool)    *)
(* on a session of its own, so requests interleave at the granularity of   *)
(* their SQL statements: each SELECT and each commit() is one step here,   *)
(* and each reads or writes the committed database state.  The session is  *)
(* built with expire_on_commit=False, so the Room and Player objects a     *)
(* request has loaded keep the values it read (req[r].room, req[r].lp).    *)
(***************************************************************************)
EXTENDS Integers, Sequences, FiniteSets, TLC

\* ---------------------------------------------------------------- bounds
MaxReq == 2        \* request slots that can be in flight at once
MaxOps == 5        \* requests started in one behaviour of Spec
MaxSubs == 2       \* subscriptions opened in one behaviour of EventSpec, BrokerSpec
MaxRoomPlayers == 2 \* largest max_players a room is created with (the code allows up to 4)
MaxPubs == 2       \* publish calls made in one behaviour of BrokerSpec
MaxSettled == 4    \* longest list of players calculate_payouts is applied to

\* ------------------------------------------------------ program constants
MinPlayers == 2    \* "total < 2" / "total_players < 2"
MinRoomPlayers == 2 \* RoomCreate.max_players: ge=2
AllocationTotal == 100

STATUS_WAITING == "waiting"
STATUS_READY == "ready"
STATUS_COMPLETED == "completed"

NULL == -1         \* a NULL column (allocation_a, allocation_b, payout, submitted_at)

Reqs == 1..MaxReq

\* Room codes the broker is used with; the modelled room has the first.
Codes == {"ROOM01", "ROOM02"}
TheRoom == "ROOM01"
Assets == {0, 100} \* the asset_a / asset_b values requests carry (each within ge=0, le=100)

VARIABLES
    roomStatus,    \* rooms.status of the room
    maxPlayers,    \* rooms.max_players of the room
    players,       \* the players rows of the room: id -> [a, b, sub, pay]
    nextId,        \* ids are fresh; joined_at order is id order
    now,           \* the clock datetime.now() reads
    req,           \* per request slot: where the request is and what it has loaded
    budget,        \* requests that may still be started
    calls,         \* requests started so far (the call id of the next one)
    finalized,     \* number of times _finalize_room committed
    resultsPub,    \* number of results_ready events handed to broker.publish
    subscribers,   \* RoomEventBroker._subscribers: room code -> set of queues
    streams,       \* per subscribe() generator: its room code, every message put on
                   \* its queue (got), how many queue.get() has taken, whether it runs
    subsLeft       \* subscriptions that may still be opened

vars == <<roomStatus, maxPlayers, players, nextId, now, req, budget, calls,
          finalized, resultsPub, subscribers, streams, subsLeft>>

dbVars == <<roomStatus, maxPlayers, players, nextId, now>>
brokerVars == <<subscribers, streams, subsLeft>>

\* ------------------------------------------------------------- the tables
\* Player(room_code=..., display_name=...): every other column NULL.
NewPlayer == [a |-> NULL, b |-> NULL, sub |-> NULL, pay |-> NULL]

NoPlayer == [a |-> NULL, b |-> NULL, sub |-> NULL, pay |-> NULL]

Ids == DOMAIN players

\* select(func.count()).select_from(Player).where(Player.room_code == code)
CountPlayers == Cardinality(Ids)

\* ... .where(Player.room_code == room.code, Player.submitted_at.is_not(None))
CountSubmitted == Cardinality({p \in Ids : players[p].sub # NULL})

\* ------------------------------------------------------------ the payouts
RECURSIVE SumB(_, _)
SumB(rows, S) ==
    IF S = {} THEN 0
    ELSE LET p == CHOOSE x \in S : TRUE
         IN rows[p].b + SumB(rows, S \ {p})

\* round(x, 2) of the real N / D cents, ties away from zero.
RoundHalfUp(N, D) ==
    LET q == N \div D
        r == N % D
    IN IF 2 * r < D THEN q ELSE q + 1

\* round(x, 2) of the real N / D cents, ties to even (Python's round()).
RoundHalfEven(N, D) ==
    LET q == N \div D
        r == N % D
    IN IF 2 * r < D THEN q
       ELSE IF 2 * r > D THEN q + 1
       ELSE IF q % 2 = 0 THEN q ELSE q + 1

\* calculate_payouts on the rows a finalize selected, payouts in cents:
\* total_b * 1.5 is a multiple of 0.5, so round(total_b * 1.5, 2) is exact and
\* boosted_pool is total_b * 150 cents; payout = round(a + boosted_pool / n, 2).
PayoutCents(rows, p) ==
    LET n == Cardinality(DOMAIN rows)
        total_b == SumB(rows, DOMAIN rows)
    IN RoundHalfEven(rows[p].a * 1000 * n + total_b * 1500, 10 * n)

CalculatePayouts(rows) == [p \in DOMAIN rows |-> PayoutCents(rows, p)]

MissingAllocations(rows) == \E p \in DOMAIN rows : rows[p].a = NULL \/ rows[p].b = NULL

\* GameResult(total_b_pool=float(total_b), boosted_pool=boosted_pool, players=payouts):
\* total_b_pool in whole units, boosted_pool = round(total_b * 1.5, 2) and the
\* payouts in cents, one payout per player in the order of the list.
GameResult(rows) ==
    [total_b_pool |-> SumB(rows, DOMAIN rows),
     boosted_pool |-> RoundHalfEven(SumB(rows, DOMAIN rows) * 1500, 10),
     players |-> CalculatePayouts(rows)]

\* ------------------------------------------------------------ the requests
Idle(outcome) ==
    [pc |-> "idle", call |-> 0, pid |-> 0, a |-> NULL, b |-> NULL,
     room |-> "none", count |-> 0, lp |-> NoPlayer, res |-> << >>,
     result |-> FALSE, out |-> outcome]

\* The lowest free slot takes the next request.
Free(r) ==
    /\ req[r].pc = "idle"
    /\ \A q \in Reqs : q < r => req[q].pc # "idle"
    /\ budget > 0

Begin(r, first, pid, a, b) ==
    /\ req' = [req EXCEPT ![r] = [Idle("none") EXCEPT !.pc = first, !.call = calls + 1,
                                                      !.pid = pid, !.a = a, !.b = b]]
    /\ budget' = budget - 1
    /\ calls' = calls + 1

\* The request fails: its session rolls back whatever it has not committed, the
\* router publishes nothing.
Fail(r, outcome) == req' = [req EXCEPT ![r] = Idle(outcome)]

Goto(r, next) == req' = [req EXCEPT ![r].pc = next]

\* ------------------------------------------------------------- join_room
StartJoin(r) ==
    /\ Free(r)
    /\ Begin(r, "j_room", 0, NULL, NULL)
    /\ UNCHANGED <<dbVars, finalized, resultsPub, brokerVars>>

\* room = self.get_room(code)
JoinGetRoom(r) ==
    /\ req[r].pc = "j_room"
    /\ req' = [req EXCEPT ![r].pc = "j_count", ![r].room = roomStatus]
    /\ UNCHANGED <<dbVars, budget, calls, finalized, resultsPub, brokerVars>>

\* JoinCount refusing only above max_players (> for >=).
JoinCountOffByOne(r) ==
    /\ req[r].pc = "j_count"
    /\ IF CountPlayers > maxPlayers
       THEN Fail(r, "room_full")
       ELSE req' = [req EXCEPT ![r].pc = "j_insert", ![r].count = CountPlayers]
    /\ UNCHANGED <<dbVars, budget, calls, finalized, resultsPub, brokerVars>>

\* current_players = self._count_players(code); "Room is full" when >= max_players
JoinCount(r) ==
    /\ req[r].pc = "j_count"
    /\ IF CountPlayers >= maxPlayers
       THEN Fail(r, "room_full")
       ELSE req' = [req EXCEPT ![r].pc = "j_insert", ![r].count = CountPlayers]
    /\ UNCHANGED <<dbVars, budget, calls, finalized, resultsPub, brokerVars>>

\* self.db.add(player); self.db.commit()
JoinInsert(r) ==
    /\ req[r].pc = "j_insert"
    /\ players' = [p \in Ids \cup {nextId} |-> IF p = nextId THEN NewPlayer ELSE players[p]]
    /\ nextId' = nextId + 1
    /\ req' = [req EXCEPT ![r].pc = "j_refresh", ![r].pid = nextId]
    /\ UNCHANGED <<roomStatus, maxPlayers, now, budget, calls, finalized, resultsPub,
                   brokerVars>>

\* self.db.refresh(player) raises when the row is gone; then the test
\* current_players + 1 == room.max_players on what the request counted.
JoinRefresh(r) ==
    /\ req[r].pc = "j_refresh"
    /\ IF req[r].pid \notin Ids
       THEN Fail(r, "stale")
       ELSE IF req[r].count + 1 = maxPlayers
            THEN Goto(r, "j_status")
            ELSE Goto(r, "j_pub")
    /\ UNCHANGED <<dbVars, budget, calls, finalized, resultsPub, brokerVars>>

\* room.status = STATUS_READY; self.db.add(room); self.db.commit().  The unit of
\* work writes the column only when the value differs from the one it loaded.
JoinSetReady(r) ==
    /\ req[r].pc = "j_status"
    /\ roomStatus' = IF req[r].room # STATUS_READY THEN STATUS_READY ELSE roomStatus
    /\ req' = [req EXCEPT ![r].pc = "j_pub", ![r].room = STATUS_READY]
    /\ UNCHANGED <<maxPlayers, players, nextId, now, budget, calls, finalized,
                   resultsPub, brokerVars>>

\* ------------------------------------------------------ submit_allocation
\* asset_a + asset_b != 100 is refused before anything is read.
StartSubmit(r, pid, a, b) ==
    /\ Free(r)
    /\ IF a + b # AllocationTotal
       THEN /\ req' = [req EXCEPT ![r] = Idle("validation")]
            /\ budget' = budget - 1
            /\ calls' = calls + 1
       ELSE Begin(r, "s_player", pid, a, b)
    /\ UNCHANGED <<dbVars, finalized, resultsPub, brokerVars>>

\* player = self.db.get(Player, player_id)
SubmitGetPlayer(r) ==
    /\ req[r].pc = "s_player"
    /\ IF req[r].pid \notin Ids
       THEN Fail(r, "not_found")
       ELSE req' = [req EXCEPT ![r].pc = "s_room", ![r].lp = players[req[r].pid]]
    /\ UNCHANGED <<dbVars, budget, calls, finalized, resultsPub, brokerVars>>

\* room = self.get_room(code)
SubmitGetRoom(r) ==
    /\ req[r].pc = "s_room"
    /\ req' = [req EXCEPT ![r].pc = "s_count", ![r].room = roomStatus]
    /\ UNCHANGED <<dbVars, budget, calls, finalized, resultsPub, brokerVars>>

\* total_players = self._count_players(code), then the two refusals; the second
\* reads the Player object the request loaded.
SubmitCount(r) ==
    /\ req[r].pc = "s_count"
    /\ IF CountPlayers < MinPlayers
       THEN Fail(r, "need_two")
       ELSE IF req[r].lp.sub # NULL
            THEN Fail(r, "already_submitted")
            ELSE Goto(r, "s_commit")
    /\ UNCHANGED <<dbVars, budget, calls, finalized, resultsPub, brokerVars>>

\* player.allocation_a/_b/submitted_at = ...; self.db.commit(): an UPDATE by
\* primary key, which raises StaleDataError when the row has been deleted.
SubmitCommit(r) ==
    /\ req[r].pc = "s_commit"
    /\ IF req[r].pid \notin Ids
       THEN /\ Fail(r, "stale")
            /\ UNCHANGED <<players, now>>
       ELSE LET row == [players[req[r].pid] EXCEPT !.a = req[r].a, !.b = req[r].b,
                                                   !.sub = now]
            IN /\ players' = [players EXCEPT ![req[r].pid] = row]
               /\ now' = now + 1
               /\ req' = [req EXCEPT ![r].pc = "s_refresh",
                                     ![r].lp = [req[r].lp EXCEPT !.a = req[r].a,
                                                !.b = req[r].b, !.sub = now]]
    /\ UNCHANGED <<roomStatus, maxPlayers, nextId, budget, calls, finalized, resultsPub,
                   brokerVars>>

\* self.db.refresh(player)
SubmitRefresh(r) ==
    /\ req[r].pc = "s_refresh"
    /\ IF req[r].pid \notin Ids
       THEN Fail(r, "stale")
       ELSE req' = [req EXCEPT ![r].pc = "s_total", ![r].lp = players[req[r].pid]]
    /\ UNCHANGED <<dbVars, budget, calls, finalized, resultsPub, brokerVars>>

\* _all_players_submitted: total = self._count_players(room.code);
\* "total < room.max_players or total < 2" answers False.
SubmitTotal(r) ==
    /\ req[r].pc = "s_total"
    /\ IF CountPlayers < maxPlayers \/ CountPlayers < MinPlayers
       THEN Goto(r, "s_pub1")
       ELSE req' = [req EXCEPT ![r].pc = "s_submitted", ![r].count = CountPlayers]
    /\ UNCHANGED <<dbVars, budget, calls, finalized, resultsPub, brokerVars>>

\* SubmitSubmitted counting the submissions of the other players only.
SubmitSubmittedOthers(r) ==
    /\ req[r].pc = "s_submitted"
    /\ IF Cardinality({p \in Ids \ {req[r].pid} : players[p].sub # NULL}) = req[r].count
       THEN Goto(r, "s_select")
       ELSE req' = [req EXCEPT ![r].pc = "s_pub1", ![r].count = 0]
    /\ UNCHANGED <<dbVars, budget, calls, finalized, resultsPub, brokerVars>>

\* _all_players_submitted: the count of submitted rows; submitted == total
SubmitSubmitted(r) ==
    /\ req[r].pc = "s_submitted"
    /\ IF CountSubmitted = req[r].count
       THEN Goto(r, "s_select")
       ELSE req' = [req EXCEPT ![r].pc = "s_pub1", ![r].count = 0]
    /\ UNCHANGED <<dbVars, budget, calls, finalized, resultsPub, brokerVars>>

\* The rows _finalize_room works on: the select returns the rows of the room, and
\* for the request's own player the object already in its session, unrefreshed.
Selected(r) ==
    [p \in Ids |-> IF p = req[r].pid THEN req[r].lp ELSE players[p]]

\* _finalize_room: the select and calculate_payouts, which refuses no rows and
\* rows without allocations.  res keeps, per selected player, the payout assigned
\* and whether the assignment changed the loaded value (an UPDATE is pending).
SubmitSelect(r) ==
    /\ req[r].pc = "s_select"
    /\ LET rows == Selected(r)
       IN IF DOMAIN rows = {}
          THEN Fail(r, "no_players")
          ELSE IF MissingAllocations(rows)
               THEN Fail(r, "missing_allocations")
               ELSE LET pays == CalculatePayouts(rows)
                    IN req' = [req EXCEPT
                           ![r].pc = "s_finalize", ![r].count = 0,
                           ![r].res = [p \in DOMAIN rows |->
                                          [pay |-> pays[p], dirty |-> rows[p].pay # pays[p]]]]
    /\ UNCHANGED <<dbVars, budget, calls, finalized, resultsPub, brokerVars>>

\* The players _finalize_room's commit updates.
Dirty(r) == {p \in DOMAIN req[r].res : req[r].res[p].dirty}

\* _finalize_room: room.status = STATUS_COMPLETED; self.db.commit().  One
\* transaction: the payout UPDATEs (StaleDataError when a row is gone) and the
\* status UPDATE, written when it differs from the status the request loaded.
SubmitFinalize(r) ==
    /\ req[r].pc = "s_finalize"
    /\ IF ~(Dirty(r) \subseteq Ids)
       THEN /\ Fail(r, "stale")
            /\ UNCHANGED <<players, roomStatus, finalized>>
       ELSE /\ players' = [p \in Ids |-> IF p \in Dirty(r)
                                         THEN [players[p] EXCEPT !.pay = req[r].res[p].pay]
                                         ELSE players[p]]
            /\ roomStatus' = IF req[r].room # STATUS_COMPLETED
                             THEN STATUS_COMPLETED ELSE roomStatus
            /\ finalized' = finalized + 1
            /\ req' = [req EXCEPT ![r].pc = "s_pub1", ![r].room = STATUS_COMPLETED,
                                  ![r].res = << >>, ![r].result = TRUE]
    /\ UNCHANGED <<maxPlayers, nextId, now, budget, calls, resultsPub, brokerVars>>

\* ------------------------------------------------------------- leave_room
StartLeave(r, pid) ==
    /\ Free(r)
    /\ Begin(r, "l_player", pid, NULL, NULL)
    /\ UNCHANGED <<dbVars, finalized, resultsPub, brokerVars>>

\* player = self.db.get(Player, player_id)
LeaveGetPlayer(r) ==
    /\ req[r].pc = "l_player"
    /\ IF req[r].pid \notin Ids
       THEN Fail(r, "not_found")
       ELSE Goto(r, "l_room")
    /\ UNCHANGED <<dbVars, budget, calls, finalized, resultsPub, brokerVars>>

\* room = self.get_room(code); "Game already completed"
LeaveGetRoom(r) ==
    /\ req[r].pc = "l_room"
    /\ IF roomStatus = STATUS_COMPLETED
       THEN Fail(r, "completed")
       ELSE req' = [req EXCEPT ![r].pc = "l_delete", ![r].room = roomStatus]
    /\ UNCHANGED <<dbVars, budget, calls, finalized, resultsPub, brokerVars>>

\* self.db.delete(player); self.db.commit(): a DELETE by primary key; one that
\* matches no row is a warning, not an error.
LeaveDelete(r) ==
    /\ req[r].pc = "l_delete"
    /\ players' = [p \in Ids \ {req[r].pid} |-> players[p]]
    /\ Goto(r, "l_count")
    /\ UNCHANGED <<roomStatus, maxPlayers, nextId, now, budget, calls, finalized,
                   resultsPub, brokerVars>>

\* remaining = self._count_players(code), tested against the Room the request loaded
LeaveCount(r) ==
    /\ req[r].pc = "l_count"
    /\ IF CountPlayers < maxPlayers /\ req[r].room = STATUS_READY
       THEN Goto(r, "l_status")
       ELSE Goto(r, "l_pub")
    /\ UNCHANGED <<dbVars, budget, calls, finalized, resultsPub, brokerVars>>

\* room.status = STATUS_WAITING; self.db.add(room); self.db.commit()
LeaveSetWaiting(r) ==
    /\ req[r].pc = "l_status"
    /\ roomStatus' = STATUS_WAITING
    /\ req' = [req EXCEPT ![r].pc = "l_pub", ![r].room = STATUS_WAITING]
    /\ UNCHANGED <<maxPlayers, players, nextId, now, budget, calls, finalized,
                   resultsPub, brokerVars>>

\* -------------------------------------------------------- RoomEventBroker
\* RoomEvent(type=..., room_code=code, payload=...); the payload is told apart by
\* the call that built it.
RoomEvent(type, code, call) == [type |-> type, room_code |-> code, call |-> call]

Event(type, call) == RoomEvent(type, TheRoom, call)

EventTypes == {"player_joined", "player_submitted", "player_left", "results_ready"}

\* self._subscribers.get(room_code, set())
QueuesOf(code) == IF code \in DOMAIN subscribers THEN subscribers[code] ELSE {}

\* publish that ignores the room code and puts the message on every open queue.
PublishAll(code, event) ==
    streams' = [s \in DOMAIN streams |->
                   IF streams[s].open
                   THEN [streams[s] EXCEPT !.got = Append(@, event)]
                   ELSE streams[s]]

\* publish onto the head of each queue instead of its tail.
PublishFront(code, event) ==
    streams' = [s \in DOMAIN streams |->
                   IF s \in QueuesOf(code)
                   THEN [streams[s] EXCEPT !.got = <<event>> \o @]
                   ELSE streams[s]]

\* publish with a loop that stops after its first queue.
PublishFirstOnly(code, event) ==
    streams' = [s \in DOMAIN streams |->
                   IF s \in QueuesOf(code) /\ \A t \in QueuesOf(code) : s <= t
                   THEN [streams[s] EXCEPT !.got = Append(@, event)]
                   ELSE streams[s]]

\* publish: the snapshot of the room's queues under the lock, then a put on each.
\* The queues are unbounded and the lock is never held across a suspension, so
\* the coroutine runs from its first line to its last without yielding.
Publish(code, event) ==
    streams' = [s \in DOMAIN streams |->
                   IF s \in QueuesOf(code)
                   THEN [streams[s] EXCEPT !.got = Append(@, event)]
                   ELSE streams[s]]

\* subscribe, up to its first queue.get(): a new queue, added to the code's set
\* (which the defaultdict creates).
Subscribe(code) ==
    /\ subsLeft > 0
    /\ LET s == Cardinality(DOMAIN streams) + 1
       IN /\ streams' = [t \in DOMAIN streams \cup {s} |->
                            IF t = s THEN [code |-> code, got |-> << >>, taken |-> 0,
                                           open |-> TRUE]
                            ELSE streams[t]]
          /\ subscribers' = [c \in DOMAIN subscribers \cup {code} |->
                                IF c = code THEN QueuesOf(c) \cup {s} ELSE subscribers[c]]
    /\ subsLeft' = subsLeft - 1
    /\ UNCHANGED <<dbVars, req, budget, calls, finalized, resultsPub>>

\* payload = await queue.get(); yield payload
Deliver(s) ==
    /\ s \in DOMAIN streams
    /\ streams[s].open
    /\ streams[s].taken < Len(streams[s].got)
    /\ streams' = [streams EXCEPT ![s].taken = @ + 1]
    /\ UNCHANGED <<dbVars, req, budget, calls, finalized, resultsPub, subscribers,
                   subsLeft>>

\* A finally block that removes the queue and never pops the code.
UnsubscribeKeepsCode(s) ==
    /\ s \in DOMAIN streams
    /\ streams[s].open
    /\ LET code == streams[s].code
           rest == QueuesOf(code) \ {s}
       IN subscribers' = IF code \notin DOMAIN subscribers THEN subscribers
                         ELSE [subscribers EXCEPT ![code] = rest]
    /\ streams' = [streams EXCEPT ![s].open = FALSE]
    /\ UNCHANGED <<dbVars, req, budget, calls, finalized, resultsPub, subsLeft>>

\* subscribe's finally block, run when the generator is cancelled or closed.
Unsubscribe(s) ==
    /\ s \in DOMAIN streams
    /\ streams[s].open
    /\ LET code == streams[s].code
           rest == QueuesOf(code) \ {s}
       IN subscribers' = IF code \notin DOMAIN subscribers THEN subscribers
                         ELSE IF rest = {}
                              THEN [c \in DOMAIN subscribers \ {code} |-> subscribers[c]]
                              ELSE [subscribers EXCEPT ![code] = rest]
    /\ streams' = [streams EXCEPT ![s].open = FALSE]
    /\ UNCHANGED <<dbVars, req, budget, calls, finalized, resultsPub, subsLeft>>

\* ------------------------------------------- the router, after the service
\* join_room: broker.publish(code, player_joined)
JoinPublish(r) ==
    /\ req[r].pc = "j_pub"
    /\ Publish(TheRoom, Event("player_joined", req[r].call))
    /\ req' = [req EXCEPT ![r] = Idle("ok")]
    /\ UNCHANGED <<dbVars, budget, calls, finalized, resultsPub, subscribers, subsLeft>>

\* SubmitPublish returning after the first event, whatever the result.
SubmitPublishOnly(r) ==
    /\ req[r].pc = "s_pub1"
    /\ Publish(TheRoom, Event("player_submitted", req[r].call))
    /\ req' = [req EXCEPT ![r] = Idle("ok")]
    /\ UNCHANGED <<dbVars, budget, calls, finalized, resultsPub, subscribers, subsLeft>>

\* submit_allocation: broker.publish(code, player_submitted)
SubmitPublish(r) ==
    /\ req[r].pc = "s_pub1"
    /\ Publish(TheRoom, Event("player_submitted", req[r].call))
    /\ IF req[r].result
       THEN Goto(r, "s_pub2")
       ELSE req' = [req EXCEPT ![r] = Idle("ok")]
    /\ UNCHANGED <<dbVars, budget, calls, finalized, resultsPub, subscribers, subsLeft>>

\* submit_allocation: isinstance(result, GameResult): broker.publish(code, results_ready)
SubmitPublishResults(r) ==
    /\ req[r].pc = "s_pub2"
    /\ Publish(TheRoom, Event("results_ready", req[r].call))
    /\ resultsPub' = resultsPub + 1
    /\ req' = [req EXCEPT ![r] = Idle("ok_result")]
    /\ UNCHANGED <<dbVars, budget, calls, finalized, subscribers, subsLeft>>

\* leave_room: broker.publish(code, player_left)
LeavePublish(r) ==
    /\ req[r].pc = "l_pub"
    /\ Publish(TheRoom, Event("player_left", req[r].call))
    /\ req' = [req EXCEPT ![r] = Idle("ok")]
    /\ UNCHANGED <<dbVars, budget, calls, finalized, resultsPub, subscribers, subsLeft>>

\* ------------------------------------------------------- specifications
NoPlayers == [p \in {} |-> NewPlayer]
NoStreams == [s \in {} |-> [code |-> TheRoom, got |-> << >>, taken |-> 0, open |-> TRUE]]
NoSubscribers == [c \in {} |-> {}]

\* create_room: the room exists, Waiting, with no players; no request in flight.
Init ==
    /\ roomStatus = STATUS_WAITING
    /\ maxPlayers \in MinRoomPlayers..MaxRoomPlayers
    /\ players = NoPlayers
    /\ nextId = 1
    /\ now = 1
    /\ req = [r \in Reqs |-> Idle("none")]
    /\ budget = MaxOps
    /\ calls = 0
    /\ finalized = 0
    /\ resultsPub = 0
    /\ subscribers = NoSubscribers
    /\ streams = NoStreams
    /\ subsLeft = 0

JoinSteps(r) ==
    \/ JoinGetRoom(r) \/ JoinCount(r) \/ JoinInsert(r) \/ JoinRefresh(r)
    \/ JoinSetReady(r) \/ JoinPublish(r)

SubmitSteps(r) ==
    \/ SubmitGetPlayer(r) \/ SubmitGetRoom(r) \/ SubmitCount(r) \/ SubmitCommit(r)
    \/ SubmitRefresh(r) \/ SubmitTotal(r) \/ SubmitSubmitted(r) \/ SubmitSelect(r)
    \/ SubmitFinalize(r) \/ SubmitPublish(r) \/ SubmitPublishResults(r)

LeaveSteps(r) ==
    \/ LeaveGetPlayer(r) \/ LeaveGetRoom(r) \/ LeaveDelete(r) \/ LeaveCount(r)
    \/ LeaveSetWaiting(r) \/ LeavePublish(r)

\* The player ids a client can name: those handed out so far.
KnownIds == 1..(nextId - 1)

Next ==
    \E r \in Reqs :
        \/ StartJoin(r)
        \/ \E pid \in KnownIds, a \in Assets, b \in Assets : StartSubmit(r, pid, a, b)
        \/ \E pid \in KnownIds : StartLeave(r, pid)
        \/ JoinSteps(r)
        \/ SubmitSteps(r)
        \/ LeaveSteps(r)

Spec == Init /\ [][Next]_vars

\* A room that max_players joins have filled: Ready, nobody has submitted.
FullRoom(n) ==
    /\ roomStatus = STATUS_READY
    /\ maxPlayers = n
    /\ players = [p \in 1..n |-> NewPlayer]
    /\ nextId = n + 1
    /\ now = 1
    /\ finalized = 0
    /\ resultsPub = 0

\* Every player of the filled room has one valid submit request in flight.
SubmitsInFlight(n) ==
    /\ \E as \in [1..n -> Assets] :
         req = [r \in Reqs |->
                   IF r <= n
                   THEN [Idle("none") EXCEPT !.pc = "s_player", !.call = r, !.pid = r,
                                             !.a = as[r], !.b = AllocationTotal - as[r]]
                   ELSE Idle("none")]
    /\ calls = n
    /\ budget = 0

Min(a, b) == IF a < b THEN a ELSE b

\* The filled room in which every player submits once and nobody joins or leaves.
LiveInit ==
    /\ \E n \in MinRoomPlayers..Min(MaxRoomPlayers, MaxReq) : FullRoom(n) /\ SubmitsInFlight(n)
    /\ subscribers = NoSubscribers
    /\ streams = NoStreams
    /\ subsLeft = 0

LiveNext == \E r \in Reqs : SubmitSteps(r)

\* A worker thread that has a step to take takes it, and the event loop runs
\* every continuation that is ready.
LiveSpec == LiveInit /\ [][LiveNext]_vars /\ \A r \in Reqs : WF_vars(SubmitSteps(r))

\* The same room while clients open /rooms/{code}/events streams, read from them
\* and disconnect.
EventInit ==
    /\ \E n \in MinRoomPlayers..Min(MaxRoomPlayers, MaxReq) : FullRoom(n) /\ SubmitsInFlight(n)
    /\ subscribers = NoSubscribers
    /\ streams = NoStreams
    /\ subsLeft = MaxSubs

EventNext ==
    \/ \E r \in Reqs : SubmitSteps(r)
    \/ \E code \in Codes : Subscribe(code)
    \/ \E s \in DOMAIN streams : Deliver(s)
    \/ \E s \in DOMAIN streams : Unsubscribe(s)

EventSpec == EventInit /\ [][EventNext]_vars

\* The broker on its own: handlers of any room publish, clients of any room
\* subscribe, read and disconnect.  calls numbers the publish calls in the order
\* they are issued.  The broker never looks into a message (json.dumps), so one
\* type of event stands for all.
BrokerInit ==
    /\ roomStatus = STATUS_WAITING
    /\ maxPlayers = MinRoomPlayers
    /\ players = NoPlayers
    /\ nextId = 1
    /\ now = 1
    /\ req = [r \in Reqs |-> Idle("none")]
    /\ budget = MaxPubs
    /\ calls = 0
    /\ finalized = 0
    /\ resultsPub = 0
    /\ subscribers = NoSubscribers
    /\ streams = NoStreams
    /\ subsLeft = MaxSubs

\* await broker.publish(code, event.model_dump())
BrokerPublish(code, type) ==
    /\ budget > 0
    /\ budget' = budget - 1
    /\ calls' = calls + 1
    /\ Publish(code, RoomEvent(type, code, calls + 1))
    /\ UNCHANGED <<dbVars, req, finalized, resultsPub, subscribers, subsLeft>>

BrokerNext ==
    \/ \E code \in Codes : BrokerPublish(code, "player_joined")
    \/ \E code \in Codes : Subscribe(code)
    \/ \E s \in 1..MaxSubs : Deliver(s)
    \/ \E s \in 1..MaxSubs : Unsubscribe(s)

\* A stream whose queue holds a message and whose client keeps reading gets it:
\* queue.get() returns as soon as the queue is not empty.
BrokerSpec ==
    BrokerInit /\ [][BrokerNext]_vars /\ \A s \in 1..MaxSubs : WF_vars(Deliver(s))

\* calculate_payouts on its own, applied once to a list of players.  The list is
\* held in players (positions 1..n), the outcome in the first request.
PayAssets == {0, 1, 100}

PayRows == {[NewPlayer EXCEPT !.a = a, !.b = b] : a \in PayAssets, b \in PayAssets}
               \cup {NewPlayer}

PayInit ==
    /\ roomStatus = STATUS_READY
    /\ maxPlayers = MinRoomPlayers
    /\ \E n \in 0..MaxSettled : players \in [1..n -> PayRows]
    /\ nextId = 1
    /\ now = 1
    /\ req = [r \in Reqs |-> Idle("none")]
    /\ budget = 1
    /\ calls = 0
    /\ finalized = 0
    /\ resultsPub = 0
    /\ subscribers = NoSubscribers
    /\ streams = NoStreams
    /\ subsLeft = 0

\* GameService.calculate_payouts(players)
Settle ==
    /\ budget > 0
    /\ budget' = budget - 1
    /\ req' = [req EXCEPT ![1] =
                  IF Ids = {} THEN Idle("no_players")
                  ELSE IF MissingAllocations(players) THEN Idle("missing_allocations")
                  ELSE [Idle("settled") EXCEPT !.res = GameResult(players)]]
    /\ UNCHANGED <<dbVars, calls, finalized, resultsPub, brokerVars>>

PayNext == Settle

PayoutSpec == PayInit /\ [][PayNext]_vars

\* ================================================================ claims
Submitted(p) == players[p].sub # NULL
Paid(p) == players[p].pay # NULL

\* C1: capacity: in every reachable state the room holds at most max_players
\* players, whatever the interleaving of the requests.
C1_Capacity == CountPlayers <= maxPlayers

\* C2: finalize is effectively-once: _finalize_room commits at most once for the
\* room, so at most one submit returns a payout result and at most one
\* results_ready event is published.
C2_FinalizeOnce == finalized <= 1 /\ resultsPub <= 1

\* C3: Completed is terminal for the room's players: from a state in which the
\* room is Completed no step adds or removes a player or changes a player's
\* allocation, submitted_at or payout, and a leave_room that meets a Completed
\* room is refused and leaves its player in place.
C3_CompletedTerminal == [][roomStatus = STATUS_COMPLETED => players' = players]_vars

\* C4: single submission: once a player's submitted_at is set, submitted_at,
\* allocation_a and allocation_b of that player never change, and a submit for
\* that player is refused without changing the tables.
C4_SingleSubmission ==
    [][\A p \in Ids :
          Submitted(p) /\ p \in DOMAIN players' =>
              /\ players'[p].sub = players[p].sub
              /\ players'[p].a = players[p].a
              /\ players'[p].b = players[p].b]_vars

\* C5: in every reachable state every player of a Completed room has submitted
\* (the submitted count of a Completed room equals its player count).
C5_CompletedAllSubmitted ==
    roomStatus = STATUS_COMPLETED => CountSubmitted = CountPlayers

\* C6: in every reachable state a Ready room holds exactly max_players players
\* and none of them has a payout.
C6_ReadyIsFull ==
    roomStatus = STATUS_READY =>
        CountPlayers = maxPlayers /\ \A p \in Ids : ~Paid(p)

\* C7: a payout is set at most once and only by finalization: a player with a
\* payout belongs to a Completed room, every player of a Completed room has a
\* payout, and a payout once set keeps its value.
C7_PayoutInv ==
    /\ \A p \in Ids : Paid(p) => roomStatus = STATUS_COMPLETED
    /\ roomStatus = STATUS_COMPLETED => \A p \in Ids : Paid(p)

\* C7, stated over behaviours: the two invariants, and a set payout keeps its value.
C7_PayoutByFinalize ==
    /\ []C7_PayoutInv
    /\ [][\A p \in Ids : Paid(p) /\ p \in DOMAIN players' =>
              players'[p].pay = players[p].pay]_vars

\* C8: a join that counts max_players or more players is refused with "Room is
\* full" and leaves the status and the players as they are; a join that counts
\* fewer is not refused, and its commit adds exactly one player, whose
\* allocation_a, allocation_b, submitted_at and payout are NULL, and changes
\* nothing else.
C8_JoinStep(r) ==
    /\ req[r].pc = "j_room" /\ req'[r] # req[r] =>
          roomStatus' = roomStatus /\ players' = players
    /\ req[r].pc = "j_count" /\ req'[r] # req[r] =>
          /\ roomStatus' = roomStatus /\ players' = players
          /\ IF CountPlayers >= maxPlayers
             THEN req'[r].pc = "idle" /\ req'[r].out = "room_full"
             ELSE req'[r].pc = "j_insert"
    /\ req[r].pc = "j_insert" /\ req'[r] # req[r] =>
          /\ roomStatus' = roomStatus
          /\ \E p \in DOMAIN players' \ Ids :
                /\ DOMAIN players' = Ids \cup {p}
                /\ players'[p] = [a |-> NULL, b |-> NULL, sub |-> NULL, pay |-> NULL]
                /\ \A q \in Ids : players'[q] = players[q]
    /\ req'[r].out = "room_full" /\ req'[r] # req[r] =>
          req[r].pc = "j_count" /\ CountPlayers >= maxPlayers

\* C8, for every step of every join request.
C8_JoinFullOrAdds == [][\A r \in Reqs : C8_JoinStep(r)]_vars

\* A join was refused on the full room while another one had gone through.
C8_Witness ==
    /\ \E r, q \in Reqs : req[r].out = "room_full" /\ req[q].out = "ok"
    /\ CountPlayers = maxPlayers
    /\ \A p \in Ids : players[p] = NewPlayer

\* C9: in a filled room where nobody leaves and every player submits once, the
\* room reaches Completed and a results_ready event is published, whatever the
\* interleaving: the submits never all return without one of them finalizing.
AllReturned == \A r \in Reqs : req[r].pc = "idle"

\* C9: eventually Completed with results_ready published, and never all returned
\* without a finalization.
C9_GameCompletes ==
    /\ <>(roomStatus = STATUS_COMPLETED /\ resultsPub >= 1)
    /\ [](AllReturned => roomStatus = STATUS_COMPLETED /\ finalized >= 1 /\ resultsPub >= 1)

C9_Witness ==
    /\ AllReturned
    /\ roomStatus = STATUS_COMPLETED
    /\ resultsPub >= 1
    /\ \A p \in Ids : Submitted(p) /\ Paid(p)

\* C10: a submit that finalized publishes player_submitted and then
\* results_ready, one that did not publishes player_submitted only; each publish
\* puts its event once on the queue of every subscription registered for the
\* room, so no queue ever gets an event of a call twice, and none gets a call's
\* results_ready before its player_submitted.
RECURSIVE Occurrences(_, _)
Occurrences(q, e) ==
    IF q = << >> THEN 0
    ELSE (IF Head(q) = e THEN 1 ELSE 0) + Occurrences(Tail(q), e)

Position(q, e) == CHOOSE i \in 1..Len(q) : q[i] = e

C10_Order(s, c) ==
    LET q == streams[s].got
        sub == Event("player_submitted", c)
        res == Event("results_ready", c)
    IN /\ Occurrences(q, sub) <= 1
       /\ Occurrences(q, res) <= 1
       /\ Occurrences(q, sub) = 1 /\ Occurrences(q, res) = 1 =>
             Position(q, sub) < Position(q, res)

C10_PublishStep(r) ==
    LET c == req[r].call
    IN /\ req[r].pc = "s_finalize" /\ req'[r].pc = "s_pub1" => req'[r].result
       /\ req[r].pc = "s_pub1" /\ req'[r] # req[r] =>
             /\ \A s \in QueuesOf(TheRoom) :
                   streams'[s].got = Append(streams[s].got, Event("player_submitted", c))
             /\ IF req[r].result
                THEN req'[r].pc = "s_pub2" /\ req'[r].call = c
                ELSE req'[r].pc = "idle"
       /\ req[r].pc = "s_pub2" /\ req'[r] # req[r] =>
             /\ req'[r].pc = "idle"
             /\ \A s \in QueuesOf(TheRoom) :
                   streams'[s].got = Append(streams[s].got, Event("results_ready", c))
       /\ \A s \in DOMAIN streams :
             Occurrences(streams'[s].got, Event("results_ready", c))
                   > Occurrences(streams[s].got, Event("results_ready", c)) =>
                 req[r].pc = "s_pub2" /\ req[r].result

\* C10: the order and the counts on every queue, and every publish step of a submit.
C10_SubmitEvents ==
    /\ [](\A s \in DOMAIN streams : \A c \in 1..calls : C10_Order(s, c))
    /\ [][\A r \in Reqs : C10_PublishStep(r)]_vars

\* A subscription that stayed registered holds the events of a submit that did not
\* finalize and of one that did, in the order they were published.
C10_Witness ==
    \E s \in DOMAIN streams : \E c, d \in 1..calls :
        /\ streams[s].open
        /\ streams[s].code = TheRoom
        /\ streams[s].got = <<Event("player_submitted", c), Event("player_submitted", d),
                              Event("results_ready", d)>>

\* ---------------------------------------------------------------------- C11
C11_Placed(code, type) ==
    BrokerPublish(code, type) =>
        \A s \in QueuesOf(code) :
            LET m == RoomEvent(type, code, calls + 1)
            IN /\ streams'[s].got = Append(streams[s].got, m)
               /\ Occurrences(streams'[s].got, m) = 1

C11_Received(s, i) ==
    (s \in DOMAIN streams /\ Len(streams[s].got) >= i)
        ~> (s \in DOMAIN streams /\ (~streams[s].open \/ streams[s].taken >= i))

\* C11: a publish puts its message exactly once on the queue of every subscription
\* registered for its code at that moment, no queue ever holds a message twice, and
\* a subscription that stays registered and keeps reading receives every message
\* on its queue.
C11_FanOut ==
    /\ [][\A code \in Codes : \A type \in EventTypes : C11_Placed(code, type)]_vars
    /\ [](\A s \in DOMAIN streams : \A i \in 1..Len(streams[s].got) :
              Occurrences(streams[s].got, streams[s].got[i]) = 1)
    /\ \A s \in 1..MaxSubs : \A i \in 1..MaxPubs : C11_Received(s, i)

\* Two subscriptions of one room were registered when a message was published, and
\* both have read it.
C11_Witness ==
    \E s, t \in DOMAIN streams :
        /\ s # t
        /\ streams[s].open /\ streams[t].open
        /\ streams[s].code = streams[t].code
        /\ Len(streams[s].got) = 1
        /\ streams[t].got = streams[s].got
        /\ streams[s].taken = 1 /\ streams[t].taken = 1


\* ---------------------------------------------------------------------- C12
\* The messages a subscription has yielded so far, in the order it yielded them.
C12_Yielded(s) == SubSeq(streams[s].got, 1, streams[s].taken)

\* C12: every subscription yields the messages of its room in the order their
\* publish calls were issued (calls numbers the publish calls), and what waits on
\* its queue was issued after everything it has yielded.
C12_FIFO ==
    \A s \in DOMAIN streams :
        /\ \A i, j \in 1..streams[s].taken :
               i < j => C12_Yielded(s)[i].call < C12_Yielded(s)[j].call
        /\ \A i \in 1..streams[s].taken :
               \A j \in (streams[s].taken + 1)..Len(streams[s].got) :
                   C12_Yielded(s)[i].call < streams[s].got[j].call

\* A subscription has yielded two messages of its room, the earlier call first.
C12_Witness ==
    \E s \in DOMAIN streams :
        /\ streams[s].taken = 2
        /\ streams[s].got[1].call = 1
        /\ streams[s].got[2].call = 2

\* ---------------------------------------------------------------------- C13
RECURSIVE C13_SumOfB(_, _)
C13_SumOfB(ps, i) == IF i = 0 THEN 0 ELSE ps[i].b + C13_SumOfB(ps, i - 1)

\* P cents is the real x = X / n cents rounded to a whole cent, ties to the even
\* cent.
C13_IsRounded(P, X, n) ==
    LET d == IF P * n >= X THEN P * n - X ELSE X - P * n
    IN /\ 2 * d <= n
       /\ 2 * d = n => P % 2 = 0

C13_Row(a, b) == [NewPlayer EXCEPT !.a = a, !.b = b]

\* The three lists of tests/test_payouts.py, payouts in cents.
C13_Examples ==
    /\ GameResult(<<C13_Row(100, 0), C13_Row(0, 100)>>) =
           [total_b_pool |-> 100, boosted_pool |-> 15000, players |-> <<17500, 7500>>]
    /\ GameResult(<<C13_Row(50, 50), C13_Row(50, 50), C13_Row(50, 50), C13_Row(50, 50)>>) =
           [total_b_pool |-> 200, boosted_pool |-> 30000,
            players |-> <<12500, 12500, 12500, 12500>>]
    /\ GameResult(<<C13_Row(20, 80), C13_Row(70, 30), C13_Row(10, 90)>>) =
           [total_b_pool |-> 200, boosted_pool |-> 30000,
            players |-> <<12000, 17000, 11000>>]

\* C13: for a list of players whose allocations are all set, total_b_pool is the
\* sum of the b allocations, boosted_pool is 1.5 times that, and the result holds
\* one payout per player in the order of the list, equal to a plus an equal share
\* of boosted_pool, rounded once to the cent with ties to even; the three lists of
\* the tests give the payouts the tests pin.
C13_Payouts ==
    /\ C13_Examples
    /\ req[1].out = "settled" =>
           LET g == req[1].res
               n == Len(players)
               total == C13_SumOfB(players, n)
           IN /\ n > 0
              /\ ~MissingAllocations(players)
              /\ g.total_b_pool = total
              /\ g.boosted_pool = 150 * total
              /\ DOMAIN g.players = 1..n
              /\ \A i \in 1..n :
                     C13_IsRounded(g.players[i],
                                   100 * players[i].a * n + 150 * total, n)

\* Four players were settled and a payout fell on a tie that rounds down to the
\* even cent: 112.5 cents of share, paid as 112.
C13_Witness ==
    /\ req[1].out = "settled"
    /\ Len(players) = 4
    /\ req[1].res.total_b_pool = 3
    /\ \E i \in 1..4 : players[i].a = 0 /\ req[1].res.players[i] = 112

\* ---------------------------------------------------------------------- C14
\* C14: the join that fills the room and the change to Ready are one step: no
\* committed state has a room that is not Completed holding exactly max_players
\* players while its status is Waiting.
C14_FillingJoinAtomic ==
    (roomStatus # STATUS_COMPLETED /\ CountPlayers = maxPlayers) =>
        roomStatus # STATUS_WAITING

\* ---------------------------------------------------------------------- C15
\* C15: the last submission and the finalization are one unit: no committed state
\* has a room holding max_players players who have all submitted while the room is
\* not Completed.
C15_FinalSubmitAtomic ==
    (CountPlayers = maxPlayers /\ CountSubmitted = CountPlayers) =>
        roomStatus = STATUS_COMPLETED

\* ---------------------------------------------------------------------- C16
C16_RoomComplete == CountPlayers = maxPlayers /\ CountSubmitted = CountPlayers

\* A submit that has recorded its submission decides: it finalizes (the commit of
\* _finalize_room), or it goes on to its publish without a result.
C16_Decides(r) ==
    /\ (req[r].pc = "s_finalize" /\ req'[r].pc = "s_pub1") => C16_RoomComplete'
    /\ (req[r].pc \in {"s_total", "s_submitted"} /\ req'[r].pc = "s_pub1") =>
           ~C16_RoomComplete

\* C16: a successful submit finalizes exactly when, after its submission is
\* recorded, the room holds max_players players and every one of them has
\* submitted.
C16_FinalizeIffComplete == [][\A r \in Reqs : C16_Decides(r)]_vars

\* ---------------------------------------------------------------------- C17
\* C17: the status of a room changes only from Waiting to Ready, from Ready to
\* Completed and from Ready to Waiting; never from Waiting to Completed, and never
\* once it is Completed.
C17_StatusSteps ==
    [][roomStatus' # roomStatus =>
           <<roomStatus, roomStatus'>> \in {<<STATUS_WAITING, STATUS_READY>>,
                                            <<STATUS_READY, STATUS_COMPLETED>>,
                                            <<STATUS_READY, STATUS_WAITING>>}]_vars

\* ---------------------------------------------------------------------- C20
\* _finalize_room runs to its commit on a room that is already Completed.
C20_SecondRun(r) ==
    /\ roomStatus = STATUS_COMPLETED
    /\ req[r].pc = "s_finalize"
    /\ req'[r].pc # "s_finalize"

\* C20: a second run of the finalize path on a Completed room changes no payout,
\* leaves the status Completed and yields no payout result, so that no second
\* results_ready is published.
C20_IdempotentFinalize ==
    [][\A r \in Reqs :
           C20_SecondRun(r) =>
               /\ players' = players
               /\ roomStatus' = STATUS_COMPLETED
               /\ ~req'[r].result]_vars

\* ---------------------------------------------------------------------- C18
\* The subscription s ends: its finally block has run.
C18_Closes(s) == s \in DOMAIN streams /\ streams[s].open /\ ~streams'[s].open

C18_Registered(reg, s) == \E c \in DOMAIN reg : s \in reg[c]

\* C18: a subscription that ends is taken out of the registry, the code of the
\* last one goes with it, and the registry never maps a code to an empty set nor
\* holds a queue that is not the queue of a live subscription of that code.
C18_Cleanup ==
    /\ [][\A s \in 1..MaxSubs :
              C18_Closes(s) =>
                  /\ ~C18_Registered(subscribers', s)
                  /\ (subscribers[streams[s].code] = {s} =>
                          streams[s].code \notin DOMAIN subscribers')]_vars
    /\ [](\A c \in DOMAIN subscribers :
              /\ subscribers[c] # {}
              /\ \A s \in subscribers[c] :
                     s \in DOMAIN streams /\ streams[s].open /\ streams[s].code = c)

\* The only subscription of one room has ended and the room is gone from the
\* registry, while another room still has its subscription.
C18_Witness ==
    \E s, t \in DOMAIN streams :
        /\ ~streams[s].open
        /\ streams[s].code \notin DOMAIN subscribers
        /\ streams[t].open
        /\ streams[t].code \in DOMAIN subscribers

\* ---------------------------------------------------------------------- C19
C19_Frame(code, type) ==
    BrokerPublish(code, type) =>
        /\ \A s \in DOMAIN streams : s \notin QueuesOf(code) => streams'[s] = streams[s]
        /\ QueuesOf(code) = {} => streams' = streams

\* C19: a publish never changes the registry (it creates no entry for a code
\* without subscribers), puts its message only on the queues registered for its
\* code, and changes nothing when the code has no subscriber.
C19_PublishFrame ==
    [][/\ calls' # calls => subscribers' = subscribers /\ DOMAIN streams' = DOMAIN streams
       /\ \A code \in Codes : \A type \in EventTypes : C19_Frame(code, type)]_vars

\* Two rooms have a subscription each; the one publish went to one room only, and
\* the registry holds what it held.
C19_Witness ==
    \E s, t \in DOMAIN streams :
        /\ calls = 1
        /\ streams[s].code # streams[t].code
        /\ Len(streams[s].got) = 1
        /\ streams[t].got = << >>
        /\ subscribers = [c \in {streams[s].code, streams[t].code} |->
                              IF c = streams[s].code THEN {s} ELSE {t}]

\* ---------------------------------------------------------------------- C21
\* C21: results_ready is the last event of the submissions of a room: on the queue
\* of every subscription, no player_submitted comes after a results_ready.
C21_ResultsLast ==
    \A s \in DOMAIN streams :
        \A i, j \in 1..Len(streams[s].got) :
            (i < j /\ streams[s].got[i].type = "results_ready") =>
                streams[s].got[j].type # "player_submitted"

====
